---------------------------- MODULE Spec2Model ----------------------------
(***************************************************************************)
(* Model of unravel_agent/scout.py: the founder-identification pipeline    *)
(* find_founder (search, extraction, de-duplication, resolution and the    *)
(* PR selection step).                                                     *)
(*                                                                         *)
(* Python strings are sequences of one-character strings, so that lower(), *)
(* strip(), split(), splitlines() and the `in` substring test are computed *)
(* character by character, as the interpreter computes them.               *)
(***************************************************************************)
EXTENDS Integers, Sequences, FiniteSets, TLC

VARIABLES pc, sections, outcomes, candidate_lines, deduped_lines,
          all_candidates, found_founders, first_name, result

(* _fetch_html: the cache directory and the cache entry of the URL, the    *)
(* position of the call in progress, and the record of finished calls      *)
VARIABLES fetch_pc, cache_dir, cache, attempt, requests, delays, calls

find_founder_vars == <<pc, sections, outcomes, candidate_lines, deduped_lines,
                       all_candidates, found_founders, first_name, result>>

fetch_vars == <<fetch_pc, cache_dir, cache, attempt, requests, delays, calls>>

(* send_email: its arguments, whether the resume file exists, the lines    *)
(* waiting on standard input and those already read, the SMTP sends made   *)
(* and the value returned                                                  *)
VARIABLES mail_pc, dry_run, require_confirmation, resume_exists, stdin, typed,
          sent, is_sent

mailer_vars == <<mail_pc, dry_run, require_confirmation, resume_exists, stdin, typed,
                 sent, is_sent>>

(* a call of one of the pure helpers (_has_pr_name_parts, the entry        *)
(* building of find_founder): the words its argument is made of and the    *)
(* value it returned                                                       *)
VARIABLES arg_words, ret

helper_vars == <<arg_words, ret>>

(* _duckduckgo_search: the query, the search page, the result links        *)
(* followed so far with the URLs fetched for them, the text of the fetched *)
(* pages and the corpus returned                                           *)
VARIABLES search_pc, search_query, html, link_index, link_urls, fetched_pages, corpus

search_vars == <<search_pc, search_query, html, link_index, link_urls, fetched_pages,
                 corpus>>

vars == <<find_founder_vars, fetch_vars, mailer_vars, helper_vars, search_vars>>

-----------------------------------------------------------------------------
(* Python values that are not strings.  A string is a sequence of          *)
(* one-character strings, so a one-element sequence holding a longer       *)
(* string is never a string of the program.                                *)

None == <<"None">>

Raised == <<"Exception">>

-----------------------------------------------------------------------------
(* str methods, as CPython computes them on the characters used here.      *)

UpperCaseLetters ==
    <<"A", "B", "C", "D", "E", "F", "G", "H", "I", "J", "K", "L", "M",
      "N", "O", "P", "Q", "R", "S", "T", "U", "V", "W", "X", "Y", "Z">>

LowerCaseLetters ==
    <<"a", "b", "c", "d", "e", "f", "g", "h", "i", "j", "k", "l", "m",
      "n", "o", "p", "q", "r", "s", "t", "u", "v", "w", "x", "y", "z">>

Whitespace == {" ", "\t", "\n"}

LineBreaks == {"\n"}

UpperSet == {UpperCaseLetters[i] : i \in 1..Len(UpperCaseLetters)}

LowerSet == {LowerCaseLetters[i] : i \in 1..Len(LowerCaseLetters)}

ToLower ==
    [c \in UpperSet |->
        LowerCaseLetters[CHOOSE i \in 1..Len(UpperCaseLetters) : UpperCaseLetters[i] = c]]

ToUpper ==
    [c \in LowerSet |->
        UpperCaseLetters[CHOOSE i \in 1..Len(LowerCaseLetters) : LowerCaseLetters[i] = c]]

lower_char(c) == IF c \in UpperSet THEN ToLower[c] ELSE c

upper_char(c) == IF c \in LowerSet THEN ToUpper[c] ELSE c

lower(s) == [i \in 1..Len(s) |-> lower_char(s[i])]

upper(s) == [i \in 1..Len(s) |-> upper_char(s[i])]

(* s.strip(): s without its leading and trailing whitespace *)
strip(s) ==
    LET inked == {i \in 1..Len(s) : s[i] \notin Whitespace}
    IN  IF inked = {} THEN <<>>
        ELSE SubSeq(s, CHOOSE i \in inked : \A j \in inked : i <= j,
                       CHOOSE i \in inked : \A j \in inked : j <= i)

(* needle in hay *)
contains(needle, hay) ==
    \E i \in 0..(Len(hay) - Len(needle)) :
        SubSeq(hay, i + 1, i + Len(needle)) = needle

(* hay.find(needle) + 1, and 0 when needle does not occur *)
find(hay, needle) ==
    IF contains(needle, hay)
    THEN 1 + CHOOSE i \in 0..(Len(hay) - Len(needle)) :
             /\ SubSeq(hay, i + 1, i + Len(needle)) = needle
             /\ \A j \in 0..(i - 1) : SubSeq(hay, j + 1, j + Len(needle)) /= needle
    ELSE 0

(* the k-th smallest element of a set of positions *)
nth(positions, k) ==
    CHOOSE i \in positions : Cardinality({j \in positions : j < i}) = k - 1

(* s.split(): the maximal runs of non-whitespace characters, in order *)
split(s) ==
    LET starts == {i \in 1..Len(s) :
                      s[i] \notin Whitespace /\ (i = 1 \/ s[i - 1] \in Whitespace)}
        ends == {i \in 1..Len(s) :
                    s[i] \notin Whitespace /\ (i = Len(s) \/ s[i + 1] \in Whitespace)}
    IN  [k \in 1..Cardinality(starts) |-> SubSeq(s, nth(starts, k), nth(ends, k))]

(* s.splitlines(): the lines between line breaks; a final line break opens *)
(* no further, empty line                                                  *)
splitlines(s) ==
    LET breaks == {i \in 1..Len(s) : s[i] \in LineBreaks}
        stops == breaks \cup (IF s /= <<>> /\ s[Len(s)] \notin LineBreaks
                              THEN {Len(s) + 1} ELSE {})
    IN  [k \in 1..Cardinality(stops) |->
            SubSeq(s, (IF k = 1 THEN 0 ELSE nth(stops, k - 1)) + 1, nth(stops, k) - 1)]

(* s.split(sep, 1) for a separator that occurs in s *)
split_once(s, sep) ==
    LET at == find(s, sep)
    IN  <<SubSeq(s, 1, at - 1), SubSeq(s, at + Len(sep), Len(s))>>

(* [x.strip() for x in text.splitlines() if x.strip()] *)
is_nonblank(x) == strip(x) /= <<>>

stripped_nonempty(ls) ==
    LET kept == SelectSeq(ls, is_nonblank)
    IN  [k \in 1..Len(kept) |-> strip(kept[k])]

clean_lines(text) == stripped_nonempty(splitlines(text))

-----------------------------------------------------------------------------
(* String literals of scout.py.                                            *)

SEPARATOR ==
    <<":", ":">>

PR ==
    <<"p", "r">>

NONE_LOWER ==
    <<"n", "o", "n", "e">>

NONE_UPPER ==
    <<"N", "O", "N", "E">>

DOES_NOT ==
    <<"d", "o", "e", "s", " ", "n", "o", "t">>

NO_INFORMATION ==
    <<"n", "o", " ", "i", "n", "f", "o", "r", "m", "a", "t", "i", "o", "n">>

NOT_EXPLICITLY ==
    <<"n", "o", "t", " ", "e", "x", "p", "l", "i", "c", "i", "t", "l", "y">>

SUPPORTING_EVIDENCE ==
    <<"S", "u", "p", "p", "o", "r", "t", "i", "n", "g", " ", "e", "v", "i", "d", "e", "n", "c",
      "e", " ", "f", "o", "u", "n", "d", " ", "i", "n", " ", "s", "o", "u", "r", "c", "e", " ",
      "t", "e", "x", "t", ".">>

NO_FOUNDER_INFORMATION ==
    <<"N", "o", " ", "f", "o", "u", "n", "d", "e", "r", " ", "i", "n", "f", "o", "r", "m", "a",
      "t", "i", "o", "n", " ", "f", "o", "u", "n", "d", ".">>

EMAIL_DOMAIN ==
    <<"@", "u", "n", "r", "a", "v", "e", "l", ".", "t", "e", "c", "h">>

(* variant: a list without the last phrase *)
NEGATION_PHRASES_SHORT == {DOES_NOT, NO_INFORMATION}

NEGATION_PHRASES == {DOES_NOT, NO_INFORMATION, NOT_EXPLICITLY}

QUERIES ==
    <<"unravel tech pune founders", "who founded unravel.tech company",
      "unravel.tech team founders", "site:linkedin.com unravel tech founders">>

-----------------------------------------------------------------------------
(* The texts the language model can hand to find_founder: the `founders`   *)
(* field of an extractor answer and the `first_name` field of a selector   *)
(* answer.  The model's answer is not a function of the corpus it is       *)
(* given, so every answer is possible for every corpus.                    *)

FoundersTwo ==
    <<"P", "r", "a", "j", "w", "a", "l", "i", "t", " ", "B", "h", "o", "p", "a", "l", "e", " ",
      ":", ":", " ", "f", "o", "u", "n", "d", "e", "r", "\n", "V", "e", "d", "a", "n", "g",
      " ", "M", "a", "n", "e", "r", "i", "k", "a", "r", " ", ":", ":", " ", "c", "o", "-", "f",
      "o", "u", "n", "d", "e", "r">>

FoundersNone ==
    <<"N", "O", "N", "E", " ", ":", ":", " ", "n", "o", " ", "f", "o", "u", "n", "d", "e", "r",
      "s", " ", "m", "e", "n", "t", "i", "o", "n", "e", "d">>

FoundersABC ==
    <<"A", " ", ":", ":", " ", "x", "\n", "a", " ", ":", ":", " ", "y", "\n", "B", " ", ":",
      ":", " ", "z">>

FoundersMiddle ==
    <<"V", "e", "d", "a", "n", "g", " ", "P", "r", "a", "j", "w", "a", "l", "i", "t", " ", "M",
      "a", "n", "e", "r", "i", "k", "a", "r", " ", ":", ":", " ", "c", "t", "o", "\n", " ",
      " ", "\n", "p", "r", "a", "j", "w", "a", "l", "i", "t", " ", "b", "h", "o", "p", "a",
      "l", "e", " ", ":", ":", " ", "F", "O", "U", "N", "D", "E", "R", "\n", "P", "r", "a",
      "j", "w", "a", "l", "i", "t", " ", "B", "h", "o", "p", "a", "l", "e", " ", ":", ":", " ",
      "c", "e", "o">>

FoundersNameless ==
    <<":", ":", " ", "r", "e", "a", "s", "o", "n">>

FoundersProse ==
    <<"T", "h", "e", " ", "t", "e", "x", "t", " ", "d", "o", "e", "s", " ", "n", "o", "t", " ",
      "m", "e", "n", "t", "i", "o", "n", " ", "f", "o", "u", "n", "d", "e", "r", "s">>

AnswerPrajwalit ==
    <<"P", "r", "a", "j", "w", "a", "l", "i", "t">>

AnswerNone ==
    <<" ", "N", "o", "n", "e", "\n">>

AnswerVedang ==
    <<"V", "e", "d", "a", "n", "g">>

AnswerFullName ==
    <<"P", "r", "a", "j", "w", "a", "l", "i", "t", " ", "B", "h", "o", "p", "a", "l", "e">>

AnswerLines ==
    <<"V", "e", "d", "a", "n", "g", "\n", "P", "r", "e", "m", "\n", "\n", "p", "r", "a", "j",
      "w", "a", "l", "i", "t">>

AnswerEmpty ==
    <<>>

AnswerPr ==
    <<"p", "r">>

FoundersExpress ==
    <<"E", "x", "p", "r", "e", "s", "s", " ", "C", "h", "o", "p", "r", "a", "\n", "n", "o",
      "t", " ", "e", "x", "p", "l", "i", "c", "i", "t", "l", "y", " ", "n", "a", "m", "e", "d">>

AnswerShouted ==
    <<" ", "P", "R", "A", "J", "W", "A", "L", "I", "T", " ", "\n">>

NumExtractorOutputs == 6

NumSelectorAnswers == 7

ExtractorPool ==
    <<FoundersTwo, FoundersNone, FoundersABC, FoundersMiddle, FoundersNameless,
      FoundersProse, FoundersExpress>>

SelectorPool ==
    <<AnswerPrajwalit, AnswerNone, AnswerVedang, AnswerFullName, AnswerLines,
      AnswerEmpty, AnswerPr, AnswerShouted>>

Min(a, b) == IF a < b THEN a ELSE b

ExtractorOutputs ==
    {ExtractorPool[i] : i \in 1..Min(NumExtractorOutputs, Len(ExtractorPool))}

SelectorAnswers ==
    {SelectorPool[i] : i \in 1..Min(NumSelectorAnswers, Len(SelectorPool))}

-----------------------------------------------------------------------------
(* Deterministic helpers.                                                  *)

(* variant: "pr" in any word of the name *)
has_pr_any_part(name) ==
    LET parts == split(lower(strip(name)))
    IN  \E i \in 1..Len(parts) : contains(PR, parts[i])

(* variant: a check that only asks for a word, without the "pr" test *)
has_pr_name_parts_unchecked(name) == split(lower(strip(name))) /= <<>>

has_pr_name_parts(name) ==
    LET parts == split(lower(strip(name)))
    IN  IF parts = <<>> THEN FALSE
        ELSE IF Len(parts) = 1 THEN contains(PR, parts[1])
        ELSE contains(PR, parts[1]) \/ contains(PR, parts[Len(parts)])

(* variant: a key without case folding *)
dedupe_key_cased(line) == line

(* the key under which a candidate line is remembered as seen *)
dedupe_key(line) == lower(line)

(* dedupe while preserving order *)
RECURSIVE dedupe_loop(_, _, _)
dedupe_loop(lines, seen, deduped) ==
    IF lines = <<>> THEN deduped
    ELSE LET line == Head(lines)
             key == dedupe_key(line)
         IN  IF key \notin seen
             THEN dedupe_loop(Tail(lines), seen \cup {key}, Append(deduped, line))
             ELSE dedupe_loop(Tail(lines), seen, deduped)

dedupe(lines) == dedupe_loop(lines, {}, <<>>)

(* one founder entry with name and reason from one line *)
parse_candidate(line) ==
    LET low == lower(line)
    IN  IF contains(SEPARATOR, line)
        THEN LET name_part == split_once(line, SEPARATOR)[1]
                 reason_part == split_once(line, SEPARATOR)[2]
                 name == strip(name_part)
             IN  [name |-> IF lower(name) = NONE_LOWER THEN None ELSE name,
                  reason |-> strip(reason_part)]
        ELSE IF \/ contains(NONE_LOWER, low)
                \/ \E x \in NEGATION_PHRASES : contains(x, low)
             THEN [name |-> None, reason |-> strip(line)]
             ELSE [name |-> strip(line), reason |-> SUPPORTING_EVIDENCE]

build_candidates(lines) == [i \in 1..Len(lines) |-> parse_candidate(lines[i])]

(* variant: a filter that keeps absence entries *)
keeps_candidate_any(c) == TRUE

keeps_candidate(c) == c.name /= None

filter_found(candidates) == SelectSeq(candidates, keeps_candidate)

(* variant: the reason of the last entry instead of the first *)
absence_reason_last(candidates) ==
    IF candidates /= <<>> THEN candidates[Len(candidates)].reason ELSE NO_FOUNDER_INFORMATION

(* the reason of the entry returned when no name is found *)
absence_reason(candidates) ==
    IF candidates /= <<>> THEN candidates[1].reason ELSE NO_FOUNDER_INFORMATION

absence_result(candidates) ==
    <<[name |-> None, reason |-> absence_reason(candidates)]>>

(* whether the picked name is the entry's first name or occurs in its full *)
(* name; f["name"].split()[0] raises IndexError for a name without words   *)
entry_raises(f) == split(f.name) = <<>>

entry_matches(name_candidate, f) ==
    \/ lower(name_candidate) = lower(split(f.name)[1])
    \/ contains(lower(name_candidate), lower(f.name))

(* the inner loop over found_founders: the index of the first entry that   *)
(* matches, 0 when none does, -1 when the comparison raises before a match *)
RECURSIVE match_from(_, _, _)
match_from(name_candidate, founders, j) ==
    IF j > Len(founders) THEN 0
    ELSE IF entry_raises(founders[j]) THEN -1
    ELSE IF entry_matches(name_candidate, founders[j]) THEN j
    ELSE match_from(name_candidate, founders, j + 1)

(* variant: the inner loop without its break, the last entry that matches *)
match_entry_last(name_candidate, founders) ==
    LET hits == {j \in 1..Len(founders) : match_from(name_candidate, founders, j) = j}
    IN  IF match_from(name_candidate, founders, 1) <= 0
        THEN match_from(name_candidate, founders, 1)
        ELSE CHOOSE j \in hits : \A h \in hits : h <= j

match_entry(name_candidate, founders) == match_from(name_candidate, founders, 1)

(* the outer loop over picked_names: matched (as match_entry gives it) and *)
(* final_picked_name                                                       *)
RECURSIVE pick_from(_, _, _)
pick_from(picked_names, founders, k) ==
    IF k > Len(picked_names)
    THEN [matched |-> 0, final_picked_name |-> None]
    ELSE IF ~has_pr_name_parts(picked_names[k])
         THEN pick_from(picked_names, founders, k + 1)
         ELSE LET m == match_entry(picked_names[k], founders)
              IN  IF m = 0
                  THEN pick_from(picked_names, founders, k + 1)
                  ELSE [matched |-> m, final_picked_name |-> picked_names[k]]

pick(picked_names, founders) == pick_from(picked_names, founders, 1)

make_email(final_picked_name) == lower(final_picked_name) \o EMAIL_DOMAIN

(* variant: marking by name, every entry that carries the matched name *)
mark_selected_by_name(founders, m, final_picked_name) ==
    [i \in 1..Len(founders) |->
        IF founders[i].name = founders[m].name
        THEN [name |-> founders[i].name, reason |-> founders[i].reason,
              email |-> make_email(final_picked_name), selected |-> TRUE]
        ELSE founders[i]]

mark_selected(founders, m, final_picked_name) ==
    [founders EXCEPT ![m] =
        [name |-> @.name, reason |-> @.reason,
         email |-> make_email(final_picked_name), selected |-> TRUE]]

no_selection(raw) == raw = <<>> \/ upper(raw) = NONE_UPPER

-----------------------------------------------------------------------------
(* find_founder as a state machine.  pc is the stage the call is in;       *)
(* outcomes records, per section, the text the extractor returned or       *)
(* Raised; first_name is the selector's answer (None before the call,      *)
(* Raised when the call failed).                                           *)

(* the parts of the program followed here, each by a specification of its *)
(* own: a part that a specification does not follow stays idle             *)
IdleOutside(part) ==
    /\ part /= "find_founder" =>
           /\ pc = "Idle"
           /\ sections = <<>>
           /\ outcomes = <<>>
           /\ candidate_lines = <<>>
           /\ deduped_lines = <<>>
           /\ all_candidates = <<>>
           /\ found_founders = <<>>
           /\ first_name = None
           /\ result = <<>>
    /\ part /= "_fetch_html" =>
           /\ fetch_pc = "idle"
           /\ cache_dir = "absent"
           /\ cache = None
           /\ attempt = 0
           /\ requests = 0
           /\ delays = <<>>
           /\ calls = <<>>
    /\ part /= "send_email" =>
           /\ mail_pc = "idle"
           /\ dry_run = FALSE
           /\ require_confirmation = TRUE
           /\ resume_exists = TRUE
           /\ stdin = <<>>
           /\ typed = <<>>
           /\ sent = 0
           /\ is_sent = None
    /\ part /= "helpers" =>
           /\ arg_words = <<>>
           /\ ret = [fn |-> "idle"]
    /\ part /= "_duckduckgo_search" =>
           /\ search_pc = "idle"
           /\ search_query = <<>>
           /\ html = <<>>
           /\ link_index = 0
           /\ link_urls = <<>>
           /\ fetched_pages = <<>>
           /\ corpus = None

Init ==
    /\ IdleOutside("find_founder")
    /\ pc = "Searching"
    /\ sections = <<>>
    /\ outcomes = <<>>
    /\ candidate_lines = <<>>
    /\ deduped_lines = <<>>
    /\ all_candidates = <<>>
    /\ found_founders = <<>>
    /\ first_name = None
    /\ result = <<>>

(* the corpus _duckduckgo_search(query) returns; find_founder hands it to  *)
(* the extractor and reads nothing of it                                   *)
duckduckgo_search(query) == <<"corpus", query>>

(* for q in QUERIES: sections.append(_duckduckgo_search(q)) *)
Search ==
    /\ pc = "Searching"
    /\ UNCHANGED <<fetch_vars, mailer_vars, helper_vars, search_vars>>
    /\ sections' = Append(sections, duckduckgo_search(QUERIES[Len(sections) + 1]))
    /\ pc' = IF Len(sections) + 1 = Len(QUERIES) THEN "Extracting" ELSE "Searching"
    /\ UNCHANGED <<outcomes, candidate_lines, deduped_lines, all_candidates,
                   found_founders, first_name, result>>

after_section == IF Len(outcomes) + 1 = Len(sections) THEN "Resolving" ELSE "Extracting"

(* one pass of the extraction loop in which the extractor answers *)
Extract ==
    /\ pc = "Extracting"
    /\ UNCHANGED <<fetch_vars, mailer_vars, helper_vars, search_vars>>
    /\ \E founders \in ExtractorOutputs :
        /\ outcomes' = Append(outcomes, founders)
        /\ candidate_lines' = candidate_lines \o clean_lines(founders)
    /\ pc' = after_section
    /\ UNCHANGED <<sections, deduped_lines, all_candidates, found_founders,
                   first_name, result>>

(* variant: the handler around the whole loop, a failure ends extraction *)
ExtractFailsEndsLoop ==
    /\ pc = "Extracting"
    /\ UNCHANGED <<fetch_vars, mailer_vars, helper_vars, search_vars>>
    /\ outcomes' = Append(outcomes, Raised)
    /\ candidate_lines' = candidate_lines
    /\ pc' = "Resolving"
    /\ UNCHANGED <<sections, deduped_lines, all_candidates, found_founders,
                   first_name, result>>

(* one pass of the extraction loop in which the extractor call raises *)
ExtractFails ==
    /\ pc = "Extracting"
    /\ UNCHANGED <<fetch_vars, mailer_vars, helper_vars, search_vars>>
    /\ outcomes' = Append(outcomes, Raised)
    /\ candidate_lines' = candidate_lines
    /\ pc' = after_section
    /\ UNCHANGED <<sections, deduped_lines, all_candidates, found_founders,
                   first_name, result>>

(* variant: the selection step follows whether or not a name was found *)
ResolveThenSelect ==
    /\ pc = "Resolving"
    /\ UNCHANGED <<fetch_vars, mailer_vars, helper_vars, search_vars>>
    /\ deduped_lines' = dedupe(candidate_lines)
    /\ all_candidates' = build_candidates(deduped_lines')
    /\ found_founders' = filter_found(all_candidates')
    /\ result' = result
    /\ pc' = "Selecting"
    /\ UNCHANGED <<sections, outcomes, candidate_lines, first_name>>

(* de-duplication, entry building, filtering and the return of the absence *)
(* entry when no name is found.  all_candidates is not read after this     *)
(* step.                                                                   *)
Resolve ==
    /\ pc = "Resolving"
    /\ UNCHANGED <<fetch_vars, mailer_vars, helper_vars, search_vars>>
    /\ deduped_lines' = dedupe(candidate_lines)
    /\ all_candidates' = build_candidates(deduped_lines')
    /\ found_founders' = filter_found(all_candidates')
    /\ IF found_founders' = <<>>
       THEN /\ result' = absence_result(all_candidates')
            /\ pc' = "Done"
       ELSE /\ result' = result
            /\ pc' = "Selecting"
    /\ UNCHANGED <<sections, outcomes, candidate_lines, first_name>>

(* the selector answers: PR selection over found_founders *)
Select ==
    /\ pc = "Selecting"
    /\ UNCHANGED <<fetch_vars, mailer_vars, helper_vars, search_vars>>
    /\ \E answer \in SelectorAnswers :
        LET raw == strip(answer)
            picked_names == clean_lines(raw)
            p == pick(picked_names, found_founders)
        IN  /\ first_name' = answer
            /\ IF no_selection(raw)
               THEN /\ pc' = "Done"
                    /\ found_founders' = found_founders
                    /\ result' = found_founders
               ELSE IF p.matched = -1
               THEN /\ pc' = "Raised"
                    /\ UNCHANGED <<found_founders, result>>
               ELSE IF p.matched > 0
               THEN /\ pc' = "Done"
                    /\ found_founders' =
                           mark_selected(found_founders, p.matched, p.final_picked_name)
                    /\ result' = found_founders'
               ELSE /\ pc' = "Done"
                    /\ found_founders' = found_founders
                    /\ result' = found_founders
    /\ UNCHANGED <<sections, outcomes, candidate_lines, deduped_lines, all_candidates>>

(* the selector call raises; nothing in find_founder catches it *)
SelectFails ==
    /\ pc = "Selecting"
    /\ UNCHANGED <<fetch_vars, mailer_vars, helper_vars, search_vars>>
    /\ first_name' = Raised
    /\ pc' = "Raised"
    /\ UNCHANGED <<sections, outcomes, candidate_lines, deduped_lines, all_candidates,
                   found_founders, result>>

Next ==
    \/ Search
    \/ Extract
    \/ ExtractFails
    \/ Resolve
    \/ Select
    \/ SelectFails

Spec == Init /\ [][Next]_vars

-----------------------------------------------------------------------------
(* Vocabulary of the properties.                                           *)

Returned == pc = "Done"

SelectorAnswered == first_name /= None /\ first_name /= Raised

Selected(e) == "selected" \in DOMAIN e /\ e.selected = TRUE

HasEmail(e) == "email" \in DOMAIN e

Unmarked(e) == DOMAIN e = {"name", "reason"}

SelectedEntries == {i \in 1..Len(result) : Selected(result[i])}

(* "pr" occurs in the first or in the last word of a name *)
PrInFirstOrLastWord(name) ==
    LET words == split(lower(name))
    IN  /\ words /= <<>>
        /\ contains(PR, words[1]) \/ contains(PR, words[Len(words)])

(* the lines of a selector answer, as the selection step reads them *)
TokensOf(answer) == clean_lines(strip(answer))

AnswerTokens == TokensOf(first_name)

(* an entry is a structural match of a token *)
StructuralMatch(token, e) ==
    \/ split(e.name) /= <<>> /\ lower(token) = lower(split(e.name)[1])
    \/ contains(lower(token), lower(e.name))

(* the selector token a run matches: the first line of the answer that    *)
(* passes the "pr" check and structurally matches some entry               *)
MatchingTokensOf(answer, entries) ==
    {k \in 1..Len(TokensOf(answer)) :
        /\ PrInFirstOrLastWord(TokensOf(answer)[k])
        /\ \E i \in 1..Len(entries) : StructuralMatch(TokensOf(answer)[k], entries[i])}

MatchedTokenOf(answer, entries) ==
    TokensOf(answer)[nth(MatchingTokensOf(answer, entries), 1)]

MatchedToken(entries) == MatchedTokenOf(first_name, entries)

PRAJWALIT_BHOPALE ==
    <<"P", "r", "a", "j", "w", "a", "l", "i", "t", " ", "B", "h", "o", "p", "a", "l", "e">>

VEDANG_MANERIKAR ==
    <<"V", "e", "d", "a", "n", "g", " ", "M", "a", "n", "e", "r", "i", "k", "a", "r">>

-----------------------------------------------------------------------------
(* C1: whenever find_founder returns a list with a selected entry, the     *)
(* first word or the last word of that entry's name contains "pr"          *)
(* (case-insensitive).  The code checks the selector token, not the entry: *)
(* the answer "Prajwalit" selects "Vedang Prajwalit Manerikar".            *)
C1_SelectedHasPrInFirstOrLastName ==
    Returned =>
        \A i \in SelectedEntries : PrInFirstOrLastWord(result[i].name)

(* C2: a selected entry's email is non-empty and equals the lower-cased    *)
(* first word of the matched selector token followed by "@unravel.tech".   *)
(* The code lower-cases the whole token: the answer "Prajwalit Bhopale"    *)
(* gives "prajwalit bhopale@unravel.tech".                                 *)
C2_EmailIsFirstWordOfToken ==
    Returned =>
        \A i \in SelectedEntries :
            /\ HasEmail(result[i])
            /\ result[i].email /= <<>>
            /\ result[i].email =
                   lower(split(MatchedToken(result))[1]) \o EMAIL_DOMAIN

(* C3: in every returned list at most one entry is selected, whatever the  *)
(* number of lines of the selector answer and of entries a line matches.   *)
C3_AtMostOneSelected ==
    Returned => Cardinality(SelectedEntries) <= 1

(* a returned list with one selected entry and a second entry of the same  *)
(* name and another reason, which the token matches as well                *)
C3_Witness ==
    /\ Returned
    /\ Cardinality(SelectedEntries) = 1
    /\ \E i \in SelectedEntries : \E j \in 1..Len(result) :
        /\ j /= i
        /\ result[j].name = result[i].name
        /\ result[j].reason /= result[i].reason
        /\ StructuralMatch(MatchedToken(result), result[j])

(* C4: selector safety.  When no line of the selector answer passes the    *)
(* check that "pr" occurs in its first or last word, the returned list has *)
(* no selected entry and no entry with an email, even when a line names a  *)
(* candidate.                                                              *)
C4_SelectorSafety ==
    (/\ Returned
     /\ SelectorAnswered
     /\ \A k \in 1..Len(AnswerTokens) : ~PrInFirstOrLastWord(AnswerTokens[k]))
    => \A i \in 1..Len(result) : ~Selected(result[i]) /\ ~HasEmail(result[i])

(* the answer "Vedang" over candidates that include Vedang Manerikar: the  *)
(* answer names a candidate and nothing is selected                        *)
C4_Witness ==
    /\ Returned
    /\ first_name = AnswerVedang
    /\ \E i \in 1..Len(result) :
        /\ result[i].name = VEDANG_MANERIKAR
        /\ StructuralMatch(AnswerVedang, result[i])
    /\ \A i \in 1..Len(result) : Unmarked(result[i])

NO_FOUNDERS_MENTIONED ==
    <<"n", "o", " ", "f", "o", "u", "n", "d", "e", "r", "s", " ", "m", "e", "n", "t", "i", "o",
      "n", "e", "d">>

FOUNDER ==
    <<"f", "o", "u", "n", "d", "e", "r">>

CO_FOUNDER ==
    <<"c", "o", "-", "f", "o", "u", "n", "d", "e", "r">>

PRAJWALIT_EMAIL ==
    <<"p", "r", "a", "j", "w", "a", "l", "i", "t", "@", "u", "n", "r", "a", "v", "e", "l", ".",
      "t", "e", "c", "h">>

LINE_A_X ==
    <<"A", " ", ":", ":", " ", "x">>

LINE_a_y ==
    <<"a", " ", ":", ":", " ", "y">>

LINE_B_Z ==
    <<"B", " ", ":", ":", " ", "z">>

(* entry i is the first entry, in list order, that structurally matches a  *)
(* token                                                                   *)
IsFirstStructuralMatch(i, token, entries) ==
    /\ StructuralMatch(token, entries[i])
    /\ \A j \in 1..(i - 1) : ~StructuralMatch(token, entries[j])

(* C5: the PR selection step leaves the entry list unchanged except for    *)
(* the one matched entry: the number and order of the entries and every    *)
(* name and reason are kept, every entry but the matched one has no        *)
(* selected/email field, the matched entry is the first entry in list      *)
(* order that structurally matches the token, and an empty or NONE answer  *)
(* changes no entry.                                                       *)
C5_SelectionFrame ==
    [][(pc = "Selecting" /\ pc' = "Done") =>
        LET before == found_founders
            after == result'
            raw == strip(first_name')
            tokens == TokensOf(first_name')
            matching == MatchingTokensOf(first_name', before)
        IN  /\ Len(after) = Len(before)
            /\ \A i \in 1..Len(before) :
                /\ after[i].name = before[i].name
                /\ after[i].reason = before[i].reason
                /\ ~Unmarked(after[i]) =>
                    \E k \in matching :
                        /\ \A h \in matching : k <= h
                        /\ IsFirstStructuralMatch(i, tokens[k], before)
            /\ (raw = <<>> \/ upper(raw) = NONE_UPPER) => after = before
    ]_vars

(* candidates Prajwalit Bhopale and Vedang Manerikar with the answer       *)
(* "Prajwalit": only the first entry is marked                             *)
C5_Witness ==
    /\ Returned
    /\ first_name = AnswerPrajwalit
    /\ result = <<[name |-> PRAJWALIT_BHOPALE, reason |-> FOUNDER,
                   email |-> PRAJWALIT_EMAIL, selected |-> TRUE],
                  [name |-> VEDANG_MANERIKAR, reason |-> CO_FOUNDER]>>

(* C6: every returned list is non-empty and is either exactly one entry    *)
(* with name None and a reason, or a list in which every entry has a name  *)
(* (a name other than None); absent and named entries are never mixed.     *)
C6_AbsentOrPopulated ==
    Returned =>
        /\ result /= <<>>
        /\ \/ /\ Len(result) = 1
              /\ result[1].name = None
              /\ result[1].reason /= None
              /\ Unmarked(result[1])
           \/ \A i \in 1..Len(result) : result[i].name /= None

(* a returned list of several named entries from lines of which one was    *)
(* an absence marker                                                       *)
C6_Witness ==
    /\ Returned
    /\ Len(result) > 1
    /\ \A i \in 1..Len(result) : result[i].name /= None
    /\ \E i \in 1..Len(all_candidates) : all_candidates[i].name = None

AfterResolve == pc \in {"Selecting", "Done", "Raised"}

PopulatedCandidates ==
    {i \in 1..Len(all_candidates) : all_candidates[i].name /= None}

(* C7: resolver absence rule.  Entries with a name are kept, in order, and *)
(* absence entries are dropped; when every parsed entry is absent or there *)
(* is no line, the result is exactly one entry with name None whose reason *)
(* is the reason of the first parsed line, or "No founder information      *)
(* found." when there is no line; "NONE :: no founders mentioned" from     *)
(* every query gives [{name: None, reason: "no founders mentioned"}].      *)
C7_AbsenceRule ==
    AfterResolve =>
        /\ IF PopulatedCandidates = {}
           THEN /\ pc = "Done"
                /\ result =
                       <<[name |-> None,
                          reason |-> IF all_candidates = <<>>
                                     THEN NO_FOUNDER_INFORMATION
                                     ELSE all_candidates[1].reason]>>
           ELSE /\ Len(found_founders) = Cardinality(PopulatedCandidates)
                /\ \A k \in 1..Len(found_founders) :
                    LET c == all_candidates[nth(PopulatedCandidates, k)]
                    IN  /\ found_founders[k].name = c.name
                        /\ found_founders[k].reason = c.reason
        /\ (\A i \in 1..Len(outcomes) : outcomes[i] = FoundersNone) =>
               result = <<[name |-> None, reason |-> NO_FOUNDERS_MENTIONED]>>

(* two absence lines with different reasons and no named entry: the one    *)
(* returned entry carries the first line's reason                          *)
C7_Witness ==
    /\ Returned
    /\ Len(all_candidates) >= 2
    /\ PopulatedCandidates = {}
    /\ all_candidates[1].reason /= all_candidates[Len(all_candidates)].reason
    /\ result = <<[name |-> None, reason |-> all_candidates[1].reason]>>

(* C8: de-duplication drops a later line that has the same name as an      *)
(* earlier one ignoring case, whatever its reason: the lines               *)
(* ["A :: x", "a :: y", "B :: z"] de-duplicate to ["A :: x", "B :: z"].    *)
(* The code compares whole lines and keeps all three.                      *)
C8_DedupByNameExample ==
    (AfterResolve /\ candidate_lines = <<LINE_A_X, LINE_a_y, LINE_B_Z>>)
    => deduped_lines = <<LINE_A_X, LINE_B_Z>>

(* the positions of the lines that equal no earlier line ignoring case *)
FirstOccurrences(lines) ==
    LET folded == [i \in 1..Len(lines) |-> lower(lines[i])]
    IN  {i \in 1..Len(lines) : \A j \in 1..(i - 1) : folded[j] /= folded[i]}

(* C8, amended: de-duplication keeps, in first-seen order, exactly the     *)
(* lines that equal no earlier line ignoring case, the whole line (name,   *)
(* separator and reason) being compared; ["A :: x", "a :: y", "B :: z"]    *)
(* is kept whole.                                                          *)
C8_DedupByWholeLine ==
    AfterResolve =>
        LET kept == FirstOccurrences(candidate_lines)
        IN  /\ Len(deduped_lines) = Cardinality(kept)
            /\ \A k \in 1..Len(deduped_lines) :
                deduped_lines[k] = candidate_lines[nth(kept, k)]
            /\ candidate_lines = <<LINE_A_X, LINE_a_y, LINE_B_Z>> =>
                   deduped_lines = candidate_lines

(* a line that differs from an earlier one in case only, and is dropped *)
C8_Witness ==
    /\ AfterResolve
    /\ \E i, j \in 1..Len(candidate_lines) :
        /\ i < j
        /\ candidate_lines[i] /= candidate_lines[j]
        /\ lower(candidate_lines[i]) = lower(candidate_lines[j])
        /\ \A k \in 1..Len(deduped_lines) : deduped_lines[k] /= candidate_lines[j]

(* C9: a failure of the selector call does not abort the run: find_founder *)
(* returns the entry list with no entry selected.  The code has no handler *)
(* around the selector call and the exception leaves find_founder.         *)
C9_SelectorFailureReturnsEntries ==
    first_name = Raised =>
        /\ Returned
        /\ result = found_founders
        /\ SelectedEntries = {}

(* the lines the extraction loop gathers from the outcomes of its passes *)
RECURSIVE Gathered(_)
Gathered(outs) ==
    IF outs = <<>> THEN <<>>
    ELSE Gathered(SubSeq(outs, 1, Len(outs) - 1))
         \o (IF outs[Len(outs)] = Raised THEN <<>> ELSE clean_lines(outs[Len(outs)]))

(* C10: a failure of the extractor call for one corpus is caught for that  *)
(* corpus only: the corpus contributes no line, the lines gathered from    *)
(* the other corpora are kept, and extraction runs for every remaining     *)
(* corpus in order.                                                        *)
C10_ExtractorFailureIsLocal ==
    /\ candidate_lines = Gathered(outcomes)
    /\ pc = "Extracting" => Len(outcomes) < Len(QUERIES)
    /\ pc \in {"Resolving", "Selecting", "Done", "Raised"} =>
           Len(outcomes) = Len(QUERIES)
    /\ pc = "Raised" => first_name /= None

(* a failed extraction between two that answer with lines *)
C10_Witness ==
    /\ Returned
    /\ \E i, j, k \in 1..Len(outcomes) :
        /\ i < j /\ j < k
        /\ outcomes[i] /= Raised /\ clean_lines(outcomes[i]) /= <<>>
        /\ outcomes[j] = Raised
        /\ outcomes[k] /= Raised /\ clean_lines(outcomes[k]) /= <<>>
    /\ Len(candidate_lines) >= 2

-----------------------------------------------------------------------------
(* an entry of the returned list is well formed: a name that is a string   *)
(* or None, and a reason                                                   *)
WellFormed(e) ==
    /\ {"name", "reason"} \subseteq DOMAIN e
    /\ DOMAIN e \subseteq {"name", "reason", "email", "selected"}

(* C11: find_founder never raises because of what the models wrote: for    *)
(* every extractor output and every selector answer the resolve and select *)
(* steps complete and a well-formed entry list is returned.  The code      *)
(* keeps the line ":: reason" as an entry whose name is the empty string,  *)
(* and the matching loop evaluates f["name"].split()[0] on it.             *)
C11_NeverRaisesOnModelOutput ==
    SelectorAnswered =>
        /\ Returned
        /\ result /= <<>>
        /\ \A i \in 1..Len(result) : WellFormed(result[i])

(* the stages a step may lead to: the loops of Searching and Extracting   *)
(* stay in their stage until the last query and the last corpus, Resolving *)
(* ends the run when no name is found, and a run that raises in Selecting  *)
(* ends there                                                              *)
StagesAfter ==
    [stage \in {"Searching", "Extracting", "Resolving", "Selecting", "Done", "Raised"} |->
        CASE stage = "Searching" -> {"Searching", "Extracting"}
          [] stage = "Extracting" -> {"Extracting", "Resolving"}
          [] stage = "Resolving" -> {"Selecting", "Done"}
          [] stage = "Selecting" -> {"Done", "Raised"}
          [] OTHER -> {}]

SelectorCalled == first_name /= None

(* what each stage has done and what it has not yet done *)
StageOrder ==
    /\ pc = "Searching" => Len(sections) < Len(QUERIES) /\ outcomes = <<>>
    /\ pc /= "Searching" =>
           /\ Len(sections) = Len(QUERIES)
           /\ \A i \in 1..Len(QUERIES) : sections[i] = duckduckgo_search(QUERIES[i])
    /\ pc = "Extracting" => Len(outcomes) < Len(sections)
    /\ pc \in {"Searching", "Extracting", "Resolving"} =>
           all_candidates = <<>> /\ found_founders = <<>> /\ ~SelectorCalled
    /\ pc \in {"Resolving", "Selecting", "Done", "Raised"} =>
           Len(outcomes) = Len(sections)
    /\ pc = "Selecting" => ~SelectorCalled
    /\ SelectorCalled => pc \in {"Done", "Raised"} /\ PopulatedCandidates /= {}
    /\ AfterResolve /\ PopulatedCandidates = {} =>
           /\ pc = "Done"
           /\ ~SelectorCalled
           /\ Len(result) = 1
           /\ result[1].name = None

(* a step stays in a looping stage or moves on to a later stage, and the   *)
(* selector's answer, once given, is never asked for again                 *)
StageStep ==
    /\ pc' \in StagesAfter[pc]
    /\ SelectorCalled => first_name' = first_name

(* C18: the run goes through Searching, Extracting, Resolving, Selecting   *)
(* and Done in this order and never back: every query is searched before   *)
(* the first extractor call, every corpus is extracted before resolving,   *)
(* the selector is called at most once and only when an entry with a name  *)
(* exists, and with no such entry the run ends with the single absence     *)
(* entry and no selector call.                                             *)
C18_LinearStages == []StageOrder /\ [][StageStep]_vars

(* every extraction fails: the run returns the placeholder, the selector   *)
(* is not called                                                           *)
C18_Witness ==
    /\ Returned
    /\ candidate_lines = <<>>
    /\ ~SelectorCalled
    /\ result = <<[name |-> None, reason |-> NO_FOUNDER_INFORMATION]>>

-----------------------------------------------------------------------------
(* Helpers shared by the parts below.                                      *)

SPACE == <<" ">>

LINE_FEED == <<"\n">>

(* sep.join(texts) *)
RECURSIVE join(_, _)
join(sep, texts) ==
    IF texts = <<>> THEN <<>>
    ELSE IF Len(texts) = 1 THEN texts[1]
    ELSE texts[1] \o sep \o join(sep, Tail(texts))

(* the sequences of at most n elements of a vocabulary: the lines typed at *)
(* a prompt, the words of an argument                                      *)
RECURSIVE sequences_upto(_, _)
sequences_upto(vocabulary, n) ==
    IF n = 0 THEN {<<>>}
    ELSE sequences_upto(vocabulary, n - 1)
         \cup {Append(ws, w) :
                  ws \in {x \in sequences_upto(vocabulary, n - 1) : Len(x) = n - 1},
                  w \in vocabulary}

-----------------------------------------------------------------------------
(* _fetch_html(url, retries=2), followed for one URL over consecutive      *)
(* calls.  cache is the content of the URL's cache file (None when the     *)
(* file does not exist, Corrupt when reading it raises); cache_dir is      *)
(* "denied" when os.makedirs cannot create the directory.  Each finished   *)
(* call leaves a record in calls: what it returned (or Raised), the cache  *)
(* entry it found, the network requests it issued and the delays it slept. *)

retries == 2

MaxCalls == 2

Corrupt == <<"Corrupt">>

linesep == <<"\n">>

PageCrLf == <<"a", "\r", "\n", "b">>

PagePlain == <<"o", "k">>

EntryOld == <<"o", "l", "d">>

EntryCrLf == <<"o", "\r", "\n", "l", "d", "\r">>

TIMED_OUT == <<"t", "i", "m", "e", "d", " ", "o", "u", "t">>

FETCH_ERROR_OPEN ==
    <<"[", "f", "e", "t", "c", "h", " ", "e", "r", "r", "o", "r", ":", " ">>

FETCH_ERROR_CLOSE == <<"]">>

(* the bodies the remote server may answer with, already decoded *)
RemotePages == {PageCrLf, PagePlain}

(* the exceptions urlopen and resp.read may raise *)
NetworkErrors == {TIMED_OUT}

(* the cache entries a previous run may have left *)
CachedEntries == {EntryOld, EntryCrLf}

(* open(cache_path, "w") in text mode: "\n" is written as os.linesep *)
RECURSIVE write_text(_)
write_text(text) ==
    IF text = <<>> THEN <<>>
    ELSE (IF Head(text) = "\n" THEN linesep ELSE <<Head(text)>>) \o write_text(Tail(text))

(* open(cache_path, "r").read() in text mode: universal newlines, "\r\n"   *)
(* and "\r" are read as "\n"                                               *)
read_text(content) ==
    LET kept == {i \in 1..Len(content) :
                    ~(content[i] = "\n" /\ i > 1 /\ content[i - 1] = "\r")}
    IN  [k \in 1..Cardinality(kept) |->
            LET c == content[nth(kept, k)] IN IF c = "\r" THEN "\n" ELSE c]

(* f"[fetch error: {exc}]" *)
fetch_error(exc) == FETCH_ERROR_OPEN \o exc \o FETCH_ERROR_CLOSE

(* time.sleep(0.8 * (2 ** attempt)), in tenths of a second *)
backoff(n) == 8 * (2 ^ n)

InitFetch ==
    /\ IdleOutside("_fetch_html")
    /\ fetch_pc = "idle"
    /\ cache \in {None, Corrupt} \cup CachedEntries
    /\ cache_dir \in {"absent", "present", "denied"}
    /\ cache /= None => cache_dir = "present"
    /\ attempt = 0
    /\ requests = 0
    /\ delays = <<>>
    /\ calls = <<>>

(* os.makedirs(cache_dir, exist_ok=True) creates the directory or finds it *)
Makedirs ==
    /\ fetch_pc = "idle"
    /\ Len(calls) < MaxCalls
    /\ cache_dir /= "denied"
    /\ cache_dir' = "present"
    /\ fetch_pc' = "lookup"
    /\ attempt' = 0
    /\ requests' = 0
    /\ delays' = <<>>
    /\ UNCHANGED <<cache, calls>>
    /\ UNCHANGED <<find_founder_vars, mailer_vars, helper_vars, search_vars>>

(* os.makedirs raises: the call is outside every try block *)
MakedirsFails ==
    /\ fetch_pc = "idle"
    /\ Len(calls) < MaxCalls
    /\ cache_dir = "denied"
    /\ calls' = Append(calls, [returned |-> Raised, entry |-> cache,
                               requests |-> 0, delays |-> <<>>])
    /\ attempt' = 0
    /\ requests' = 0
    /\ delays' = <<>>
    /\ UNCHANGED <<fetch_pc, cache_dir, cache>>
    /\ UNCHANGED <<find_founder_vars, mailer_vars, helper_vars, search_vars>>

(* variant: a readable entry is revalidated against the network *)
CacheHitRevalidates ==
    /\ fetch_pc = "lookup"
    /\ cache \notin {None, Corrupt}
    /\ fetch_pc' = "attempt"
    /\ UNCHANGED <<cache_dir, cache, attempt, requests, delays, calls>>
    /\ UNCHANGED <<find_founder_vars, mailer_vars, helper_vars, search_vars>>

(* the cache file exists and is read: return f.read() *)
CacheHit ==
    /\ fetch_pc = "lookup"
    /\ cache \notin {None, Corrupt}
    /\ calls' = Append(calls, [returned |-> read_text(cache), entry |-> cache,
                               requests |-> requests, delays |-> delays])
    /\ fetch_pc' = "idle"
    /\ UNCHANGED <<cache_dir, cache, attempt, requests, delays>>
    /\ UNCHANGED <<find_founder_vars, mailer_vars, helper_vars, search_vars>>

(* the cache file exists and reading it raises: except Exception: pass *)
CacheUnreadable ==
    /\ fetch_pc = "lookup"
    /\ cache = Corrupt
    /\ fetch_pc' = "attempt"
    /\ UNCHANGED <<cache_dir, cache, attempt, requests, delays, calls>>
    /\ UNCHANGED <<find_founder_vars, mailer_vars, helper_vars, search_vars>>

(* os.path.exists(cache_path) is false *)
CacheMiss ==
    /\ fetch_pc = "lookup"
    /\ cache = None
    /\ fetch_pc' = "attempt"
    /\ UNCHANGED <<cache_dir, cache, attempt, requests, delays, calls>>
    /\ UNCHANGED <<find_founder_vars, mailer_vars, helper_vars, search_vars>>

(* an attempt that gets the page: the cache write is tried, its failure is *)
(* passed over, and the text is returned.  After the write the cache file  *)
(* holds the text as written, or its former content when open() raises, or *)
(* nothing when f.write raises after open() truncated the file.            *)
AttemptSucceeds ==
    /\ fetch_pc = "attempt"
    /\ \E text \in RemotePages :
        /\ requests' = requests + 1
        /\ cache' \in {write_text(text), cache, <<>>}
        /\ calls' = Append(calls, [returned |-> text, entry |-> cache,
                                   requests |-> requests', delays |-> delays])
    /\ fetch_pc' = "idle"
    /\ UNCHANGED <<cache_dir, attempt, delays>>
    /\ UNCHANGED <<find_founder_vars, mailer_vars, helper_vars, search_vars>>

(* variant: the error string is returned at the first failure *)
AttemptFailsNoRetry ==
    /\ fetch_pc = "attempt"
    /\ \E exc \in NetworkErrors :
        /\ requests' = requests + 1
        /\ calls' = Append(calls, [returned |-> fetch_error(exc), entry |-> cache,
                                   requests |-> requests', delays |-> delays])
        /\ fetch_pc' = "idle"
        /\ UNCHANGED <<attempt, delays>>
    /\ UNCHANGED <<cache_dir, cache>>
    /\ UNCHANGED <<find_founder_vars, mailer_vars, helper_vars, search_vars>>

(* an attempt that raises: sleep and try again, or return the error string *)
(* after the last attempt                                                  *)
AttemptFails ==
    /\ fetch_pc = "attempt"
    /\ \E exc \in NetworkErrors :
        /\ requests' = requests + 1
        /\ IF attempt < retries
           THEN /\ delays' = Append(delays, backoff(attempt))
                /\ attempt' = attempt + 1
                /\ UNCHANGED <<fetch_pc, calls>>
           ELSE /\ calls' = Append(calls, [returned |-> fetch_error(exc), entry |-> cache,
                                           requests |-> requests', delays |-> delays])
                /\ fetch_pc' = "idle"
                /\ UNCHANGED <<attempt, delays>>
    /\ UNCHANGED <<cache_dir, cache>>
    /\ UNCHANGED <<find_founder_vars, mailer_vars, helper_vars, search_vars>>

NextFetch ==
    \/ Makedirs
    \/ MakedirsFails
    \/ CacheHit
    \/ CacheUnreadable
    \/ CacheMiss
    \/ AttemptSucceeds
    \/ AttemptFails

SpecFetch == InitFetch /\ [][NextFetch]_vars

(* finished calls, and what a call found in the cache *)
Calls == 1..Len(calls)

Readable(entry) == entry \notin {None, Corrupt}

IsFetchError(value) == \E exc \in NetworkErrors : value = fetch_error(exc)

(* C12: with no readable cache entry, a call of _fetch_html makes at most  *)
(* retries + 1 network attempts, returns the text of the first attempt     *)
(* that succeeds (every earlier attempt failed and was followed by a       *)
(* sleep), and returns "[fetch error: ...]" when all retries + 1 attempts  *)
(* fail; no network failure leaves the call as an exception (the only      *)
(* exception is raised before any network attempt, by os.makedirs).        *)
C12_BoundedAttempts ==
    /\ fetch_pc = "attempt" => requests = attempt /\ attempt <= retries
    /\ \A i \in Calls :
        ~Readable(calls[i].entry) =>
            \/ /\ calls[i].returned \in RemotePages
               /\ calls[i].requests \in 1..(retries + 1)
               /\ Len(calls[i].delays) = calls[i].requests - 1
            \/ /\ IsFetchError(calls[i].returned)
               /\ calls[i].requests = retries + 1
               /\ Len(calls[i].delays) = retries
            \/ /\ calls[i].returned = Raised
               /\ calls[i].requests = 0

(* one call exhausts its attempts, another succeeds at the last attempt *)
C12_Witness ==
    \E i, j \in Calls :
        /\ ~Readable(calls[i].entry) /\ ~Readable(calls[j].entry)
        /\ calls[i].returned = fetch_error(TIMED_OUT)
        /\ calls[j].returned \in RemotePages
        /\ calls[j].requests = retries + 1
        /\ calls[j].delays = <<8, 16>>

(* C13: cache round-trip: two consecutive calls of _fetch_html for a URL,  *)
(* starting from a cold cache, return identical text and together issue at *)
(* most one network request.  Stated for the outcome most favourable to    *)
(* the claim: the first attempt of the first call succeeds and the cache   *)
(* file is written in full.  The text read back from the file is not the   *)
(* text that was fetched when the page has a carriage return.              *)
C13_CacheRoundTrip ==
    ( /\ Len(calls) >= 2
      /\ calls[1].entry = None
      /\ calls[1].returned \in RemotePages
      /\ calls[1].requests = 1
      /\ calls[2].entry = write_text(calls[1].returned) )
    => /\ calls[2].returned = calls[1].returned
       /\ calls[1].requests + calls[2].requests <= 1

(* C14: a call that finds a readable cache entry returns the text read     *)
(* from that entry, whatever the remote server would answer, with no       *)
(* network request and no backoff sleep; the network is attempted only     *)
(* when the entry is missing or unreadable.                                *)
C14_CacheHitBeforeNetwork ==
    /\ fetch_pc = "attempt" => ~Readable(cache)
    /\ \A i \in Calls :
        Readable(calls[i].entry) =>
            /\ calls[i].returned = read_text(calls[i].entry)
            /\ calls[i].requests = 0
            /\ calls[i].delays = <<>>

(* a call fetches and writes the entry, the next call returns it; and a    *)
(* call returns an entry left by an earlier run                            *)
C14_Witness ==
    \/ /\ Len(calls) >= 2
       /\ calls[1].entry = None
       /\ calls[1].returned = PagePlain
       /\ calls[2].entry = PagePlain
       /\ calls[2].returned = PagePlain
       /\ calls[2].requests = 0
    \/ /\ Len(calls) >= 1
       /\ calls[1].entry = EntryOld
       /\ calls[1].returned = EntryOld

(* C15: no cache I/O failure is surfaced by _fetch_html: an unreadable     *)
(* entry is a miss and the fetch goes to the network, a failed cache write *)
(* still returns the fetched text, and no call raises.  The read and the   *)
(* write are guarded; os.makedirs on the cache directory is not.           *)
C15_CacheFailuresNotSurfaced ==
    \A i \in Calls :
        /\ calls[i].returned /= Raised
        /\ calls[i].entry = Corrupt => calls[i].requests >= 1

-----------------------------------------------------------------------------
(* send_email(..., dry_run, require_confirmation) of mailer.py, as main()  *)
(* of agent.py calls it.  stdin holds the lines the user will type, in     *)
(* order; input() on an exhausted stdin raises EOFError.  typed records    *)
(* what each prompt read (EndOfInput for an EOFError), sent counts the     *)
(* messages handed to the SMTP server.                                     *)

MaxAnswers == 2

EndOfInput == <<"EOFError">>

(* the Python values True and False, as send_email returns them *)
True == <<"True">>

False == <<"False">>

LineYPadded == <<" ", "Y", " ">>

LineNPadded == <<"N", " ">>

LineYes == <<"y", "e", "s">>

CHOICE_Y == <<"y">>

CHOICE_N == <<"n">>

(* what a user may type at the prompt *)
TypedLines == {CHOICE_Y, LineYPadded, CHOICE_N, LineNPadded, LineYes, <<>>}

InitMailer ==
    /\ IdleOutside("send_email")
    /\ mail_pc = "called"
    /\ dry_run \in BOOLEAN
    /\ require_confirmation \in BOOLEAN
    /\ resume_exists \in BOOLEAN
    /\ stdin \in sequences_upto(TypedLines, MaxAnswers)
    /\ typed = <<>>
    /\ sent = 0
    /\ is_sent = None

(* if not resume_path.exists(): raise FileNotFoundError *)
ResumeMissing ==
    /\ mail_pc = "called"
    /\ ~resume_exists
    /\ mail_pc' = "raised"
    /\ is_sent' = Raised
    /\ UNCHANGED <<dry_run, require_confirmation, resume_exists, stdin, typed, sent>>
    /\ UNCHANGED <<find_founder_vars, fetch_vars, helper_vars, search_vars>>

(* the message is built and previewed; if dry_run: return False *)
Preview ==
    /\ mail_pc = "called"
    /\ resume_exists
    /\ IF dry_run
       THEN /\ mail_pc' = "returned"
            /\ is_sent' = False
       ELSE /\ mail_pc' = IF require_confirmation THEN "confirm" ELSE "send"
            /\ is_sent' = is_sent
    /\ UNCHANGED <<dry_run, require_confirmation, resume_exists, stdin, typed, sent>>
    /\ UNCHANGED <<find_founder_vars, fetch_vars, helper_vars, search_vars>>

(* variant: every answer but 'n' confirms *)
confirms_unless_no(choice) == choice /= CHOICE_N

(* if choice == 'y': break *)
confirms(choice) == choice = CHOICE_Y

(* input(...).strip().lower(), 'n' on EOFError *)
choice_of(line) == IF line = EndOfInput THEN CHOICE_N ELSE lower(strip(line))

(* one pass of the confirmation loop *)
Confirm ==
    /\ mail_pc = "confirm"
    /\ LET line == IF stdin = <<>> THEN EndOfInput ELSE Head(stdin)
           choice == choice_of(line)
       IN  /\ typed' = Append(typed, line)
           /\ stdin' = IF stdin = <<>> THEN stdin ELSE Tail(stdin)
           /\ IF confirms(choice)
              THEN /\ mail_pc' = "send"
                   /\ is_sent' = is_sent
              ELSE IF choice = CHOICE_N
              THEN /\ mail_pc' = "returned"
                   /\ is_sent' = False
              ELSE /\ mail_pc' = "confirm"
                   /\ is_sent' = is_sent
    /\ UNCHANGED <<dry_run, require_confirmation, resume_exists, sent>>
    /\ UNCHANGED <<find_founder_vars, fetch_vars, helper_vars, search_vars>>

(* SMTP_SSL, login and sendmail go through; return True *)
Send ==
    /\ mail_pc = "send"
    /\ sent' = sent + 1
    /\ mail_pc' = "returned"
    /\ is_sent' = True
    /\ UNCHANGED <<dry_run, require_confirmation, resume_exists, stdin, typed>>
    /\ UNCHANGED <<find_founder_vars, fetch_vars, helper_vars, search_vars>>

(* the connection or the login raises before sendmail; nothing catches it *)
SendFails ==
    /\ mail_pc = "send"
    /\ mail_pc' = "raised"
    /\ is_sent' = Raised
    /\ UNCHANGED <<dry_run, require_confirmation, resume_exists, stdin, typed, sent>>
    /\ UNCHANGED <<find_founder_vars, fetch_vars, helper_vars, search_vars>>

NextMailer ==
    \/ ResumeMissing
    \/ Preview
    \/ Confirm
    \/ Send
    \/ SendFails

SpecMailer == InitMailer /\ [][NextMailer]_vars

(* what the user meant by a line, read off the line itself *)
SaysYes(line) == line \in {CHOICE_Y, LineYPadded}

SaysNo(line) == line \in {CHOICE_N, LineNPadded}

LastTyped == typed[Len(typed)]

(* C16: the SMTP send is gated.  A message is sent, or the call stands at  *)
(* the send, only if dry_run is false and require_confirmation is false or *)
(* the last line read says yes; with dry_run, with an answer that says no  *)
(* or at end of input the call has returned False with nothing sent; every *)
(* other answer leaves the call at the prompt with nothing sent, so each   *)
(* line read before the last is such an answer; True is returned only with *)
(* the message sent, and at most one message is sent.                      *)
C16_SendIsGated ==
    /\ sent <= 1
    /\ (sent = 1 \/ mail_pc = "send") =>
           /\ ~dry_run
           /\ require_confirmation => typed /= <<>> /\ SaysYes(LastTyped)
           /\ ~require_confirmation => typed = <<>>
    /\ dry_run /\ resume_exists /\ mail_pc /= "called" =>
           mail_pc = "returned" /\ is_sent = False /\ sent = 0 /\ typed = <<>>
    /\ typed /= <<>> /\ (SaysNo(LastTyped) \/ LastTyped = EndOfInput) =>
           mail_pc = "returned" /\ is_sent = False /\ sent = 0
    /\ typed /= <<>> /\ ~SaysYes(LastTyped) /\ ~SaysNo(LastTyped)
                     /\ LastTyped /= EndOfInput =>
           mail_pc = "confirm" /\ is_sent = None /\ sent = 0
    /\ \A i \in 1..(Len(typed) - 1) :
           ~SaysYes(typed[i]) /\ ~SaysNo(typed[i]) /\ typed[i] /= EndOfInput
    /\ is_sent = True <=> sent = 1
    /\ is_sent = True => mail_pc = "returned"

(* an answer that is neither yes nor no, a second prompt, and the send *)
C16_Witness ==
    /\ require_confirmation
    /\ typed = <<LineYes, LineYPadded>>
    /\ is_sent = True
    /\ sent = 1

-----------------------------------------------------------------------------
(* The pure helpers called on their own: _has_pr_name_parts(name) on names *)
(* and the entry building of find_founder on lines, the argument being     *)
(* words joined by single spaces.                                          *)

MaxWords == 3

WordManerikar == <<"M", "a", "n", "e", "r", "i", "k", "a", "r">>

WordExpress == <<"E", "x", "p", "r", "e", "s", "s">>

WordChopra == <<"C", "h", "o", "p", "r", "a">>

WordKiran == <<"K", "i", "r", "a", "n">>

WordDoesNot == <<"D", "o", "e", "s", " ", "n", "o", "t">>

(* the words names are made of (two of them the first names the selector  *)
(* may answer with), and the words lines are made of                       *)
NameWords == {AnswerVedang, AnswerPrajwalit, WordManerikar, WordExpress, WordChopra, SPACE}

LineWords == {WordKiran, NONE_UPPER, WordDoesNot, NO_INFORMATION, NOT_EXPLICITLY,
              SEPARATOR}

InitHelpers ==
    /\ IdleOutside("helpers")
    /\ arg_words \in sequences_upto(NameWords, MaxWords)
                     \cup sequences_upto(LineWords, MaxWords)
    /\ ret = [fn |-> "idle"]

(* _has_pr_name_parts(name) *)
CallHasPrNameParts ==
    /\ ret.fn = "idle"
    /\ \A i \in 1..Len(arg_words) : arg_words[i] \in NameWords
    /\ ret' = [fn |-> "_has_pr_name_parts", value |-> has_pr_name_parts(join(SPACE, arg_words))]
    /\ UNCHANGED <<arg_words>>
    /\ UNCHANGED <<find_founder_vars, fetch_vars, mailer_vars, search_vars>>

(* one pass of the entry-building loop, on a line as the extraction loop   *)
(* leaves it: stripped and not empty                                       *)
CallParseCandidate ==
    /\ ret.fn = "idle"
    /\ arg_words /= <<>>
    /\ \A i \in 1..Len(arg_words) : arg_words[i] \in LineWords
    /\ ret' = [fn |-> "parse_candidate", value |-> parse_candidate(join(SPACE, arg_words))]
    /\ UNCHANGED <<arg_words>>
    /\ UNCHANGED <<find_founder_vars, fetch_vars, mailer_vars, search_vars>>

NextHelpers ==
    \/ CallHasPrNameParts
    \/ CallParseCandidate

SpecHelpers == InitHelpers /\ [][NextHelpers]_vars

(* the words of a name that are not blank, and the words holding "pr" *)
NameTokens == SelectSeq(arg_words, LAMBDA w : w /= SPACE)

PrWords == {AnswerPrajwalit, WordExpress, WordChopra}

(* C17: _has_pr_name_parts(name) is true iff "pr", in any case, occurs in  *)
(* the first or in the last whitespace-separated word of the name; a       *)
(* middle word alone never makes it true, and an empty or blank name gives *)
(* false.                                                                  *)
C17_PrInFirstOrLastWordOnly ==
    ret.fn = "_has_pr_name_parts" =>
        ret.value = ( /\ NameTokens /= <<>>
                      /\ \/ NameTokens[1] \in PrWords
                         \/ NameTokens[Len(NameTokens)] \in PrWords )

(* "Vedang Prajwalit Manerikar" gives false *)
C17_Witness ==
    /\ arg_words = <<AnswerVedang, AnswerPrajwalit, WordManerikar>>
    /\ ret = [fn |-> "_has_pr_name_parts", value |-> FALSE]

(* a line made of words none of which is the separator, and the words     *)
(* that are negation phrases                                               *)
SeparatorLess == \A i \in 1..Len(arg_words) : arg_words[i] /= SEPARATOR

PhraseWords == {WordDoesNot, NO_INFORMATION, NOT_EXPLICITLY}

HasWordIn(ws) == \E i \in 1..Len(arg_words) : arg_words[i] \in ws

AbsenceOfLine == [name |-> None, reason |-> join(SPACE, arg_words)]

NameOfLine == [name |-> join(SPACE, arg_words), reason |-> SUPPORTING_EVIDENCE]

(* C19, as the spec states it: a line without "::" is an absence entry,    *)
(* with the line as reason, when it contains "does not", "no information"  *)
(* or "not explicitly", and a name entry in every other case.  The code    *)
(* also makes an absence entry of a line containing "none".                *)
C19_NegationPhrasesOnly ==
    ret.fn = "parse_candidate" /\ SeparatorLess =>
        ret.value = IF HasWordIn(PhraseWords) THEN AbsenceOfLine ELSE NameOfLine

(* C19, amended: a line without "::" is an absence entry, with the line as *)
(* reason, when in lower case it contains "none" or one of "does not",     *)
(* "no information", "not explicitly"; every other line without "::" is a  *)
(* name entry whose name is the whole line.                                *)
C19_NoneOrNegationPhrase ==
    ret.fn = "parse_candidate" /\ SeparatorLess =>
        ret.value = IF HasWordIn(PhraseWords \cup {NONE_UPPER})
                    THEN AbsenceOfLine ELSE NameOfLine

(* "Kiran Does not" is an absence entry *)
C19_Witness ==
    /\ arg_words = <<WordKiran, WordDoesNot>>
    /\ ret = [fn |-> "parse_candidate", value |-> AbsenceOfLine]

-----------------------------------------------------------------------------
(* _duckduckgo_search(query), with _strip_html_tags and _unwrap_ddg_url.   *)
(* The regular expressions are computed on the characters of the page.     *)
(* _fetch_html is taken by its contract: it returns a page or the error    *)
(* string, or raises before any request.                                   *)

MAX_LINKS == 2

PAGE_CAP == 4000

CORPUS_CAP == 14000

TITLE_MARKER ==
    <<"c", "l", "a", "s", "s", "=", "\"", "r", "e", "s", "u", "l", "t", "_",
      "_", "a", "\"">>

SNIPPET_MARKER ==
    <<"c", "l", "a", "s", "s", "=", "\"", "r", "e", "s", "u", "l", "t", "_",
      "_", "s", "n", "i", "p", "p", "e", "t", "\"">>

HREF_MARKER ==
    <<"c", "l", "a", "s", "s", "=", "\"", "r", "e", "s", "u", "l", "t", "_",
      "_", "a", "\"", " ", "h", "r", "e", "f", "=", "\"">>

CLOSE_A ==
    <<"<", "/", "a", ">">>

CLOSE_SPAN ==
    <<"<", "/", "s", "p", "a", "n", ">">>

DDG_REDIRECT ==
    <<"d", "u", "c", "k", "d", "u", "c", "k", "g", "o", ".", "c", "o", "m",
      "/", "l", "/", "?">>

UDDG ==
    <<"u", "d", "d", "g", "=">>

ESCAPED_COLON ==
    <<"%", "3", "A">>

ESCAPED_SLASH ==
    <<"%", "2", "F">>

PageResults ==
    <<"<", "a", " ", "c", "l", "a", "s", "s", "=", "\"", "r", "e", "s", "u",
      "l", "t", "_", "_", "a", "\"", " ", "h", "r", "e", "f", "=", "\"", "/",
      "/", "d", "u", "c", "k", "d", "u", "c", "k", "g", "o", ".", "c", "o",
      "m", "/", "l", "/", "?", "u", "d", "d", "g", "=", "h", "t", "t", "p",
      "%", "3", "A", "%", "2", "F", "%", "2", "F", "u", ".", "t", "&", "a",
      "m", "p", ";", "r", "=", "1", "\"", ">", "U", "n", "r", "a", "v", "e",
      "l", " ", "<", "b", ">", "T", "e", "c", "h", "<", "/", "b", ">", "<",
      "/", "a", ">", "\n", "<", "a", " ", "c", "l", "a", "s", "s", "=", "\"",
      "r", "e", "s", "u", "l", "t", "_", "_", "s", "n", "i", "p", "p", "e",
      "t", "\"", " ", "h", "r", "e", "f", "=", "\"", "x", "\"", ">", "F", "o",
      "u", "n", "d", "e", "d", " ", "b", "y", "\n", "K", "i", "r", "a", "n",
      " ", "&", "a", "m", "p", ";", " ", "c", "o", "<", "/", "a", ">">>

PageThreeResults ==
    <<"<", "a", " ", "r", "e", "l", "=", "\"", "n", "o", "f", "o", "l", "l",
      "o", "w", "\"", " ", "c", "l", "a", "s", "s", "=", "\"", "r", "e", "s",
      "u", "l", "t", "_", "_", "a", "\"", " ", "h", "r", "e", "f", "=", "\"",
      "h", "t", "t", "p", ":", "/", "/", "a", ".", "b", "\"", ">", "A", "<",
      "/", "a", ">", "<", "a", " ", "c", "l", "a", "s", "s", "=", "\"", "r",
      "e", "s", "u", "l", "t", "_", "_", "a", "\"", " ", "h", "r", "e", "f",
      "=", "\"", "h", "t", "t", "p", ":", "/", "/", "c", ".", "d", "\"", ">",
      "C", "<", "/", "a", ">", "<", "a", " ", "c", "l", "a", "s", "s", "=",
      "\"", "r", "e", "s", "u", "l", "t", "_", "_", "a", "\"", " ", "h", "r",
      "e", "f", "=", "\"", "h", "t", "t", "p", ":", "/", "/", "e", ".", "f",
      "\"", ">", "E", "<", "/", "a", ">", "<", "s", "p", "a", "n", " ", "c",
      "l", "a", "s", "s", "=", "\"", "r", "e", "s", "u", "l", "t", "_", "_",
      "s", "n", "i", "p", "p", "e", "t", "\"", ">", "s", "<", "/", "s", "p",
      "a", "n", ">">>

PageNoMarkers ==
    <<"<", "h", "t", "m", "l", ">", "<", "b", "o", "d", "y", ">", "<", "p",
      ">", "U", "n", "r", "a", "v", "e", "l", " ", "T", "e", "c", "h", " ",
      "f", "o", "u", "n", "d", "e", "r", "s", "<", "/", "p", ">", "<", "/",
      "b", "o", "d", "y", ">", "<", "/", "h", "t", "m", "l", ">">>

LinkPageAbout ==
    <<"<", "p", ">", "A", "b", "o", "u", "t", " ", " ", "u", "s", "<", "/",
      "p", ">", "\n">>


(* the characters \s matches *)
RegexSpace == {" ", "\t", "\n", "\r", "\f"}

(* the search pages _fetch_html may return, and the pages behind the links *)
SearchPages == {PageResults, PageThreeResults, PageNoMarkers, fetch_error(TIMED_OUT)}

LinkPages == {LinkPageAbout, <<>>, fetch_error(TIMED_OUT)}

(* needle occurs in hay at position i *)
occurs_at(hay, needle, i) ==
    /\ i >= 1
    /\ i + Len(needle) - 1 <= Len(hay)
    /\ SubSeq(hay, i, i + Len(needle) - 1) = needle

(* the first position at or after from where needle occurs, 0 when none *)
first_at(hay, needle, from) ==
    LET hits == {i \in from..(Len(hay) - Len(needle) + 1) :
                    SubSeq(hay, i, i + Len(needle) - 1) = needle}
    IN  IF hits = {} THEN 0 ELSE CHOOSE i \in hits : \A j \in hits : i <= j

(* where the tag holding the marker at i closes, and where the first of    *)
(* the closers occurs after it                                             *)
tag_close(page, marker, i) == first_at(page, <<">">>, i + Len(marker))

closer_at(page, closers, from) ==
    LET ends == {first_at(page, c, from) : c \in closers} \ {0}
    IN  IF ends = {} THEN 0 ELSE CHOOSE e \in ends : \A f \in ends : e <= f

(* re.findall(marker + r'[^>]*>(.*?)' + closer, page, re.DOTALL) from      *)
(* position from on: the groups of the successive leftmost matches         *)
RECURSIVE findall_element(_, _, _, _)
findall_element(page, marker, closers, from) ==
    LET starts == {i \in from..Len(page) :
                      /\ occurs_at(page, marker, i)
                      /\ tag_close(page, marker, i) > 0
                      /\ closer_at(page, closers, tag_close(page, marker, i) + 1) > 0}
    IN  IF starts = {} THEN <<>>
        ELSE LET i == CHOOSE x \in starts : \A y \in starts : x <= y
                 gt == tag_close(page, marker, i)
                 e == closer_at(page, closers, gt + 1)
                 closer == CHOOSE c \in closers : occurs_at(page, c, e)
             IN  <<SubSeq(page, gt + 1, e - 1)>>
                 \o findall_element(page, marker, closers, e + Len(closer))

(* re.findall(r'class="result__a" href="(.*?)"', page): the group does not *)
(* cross a line break                                                      *)
RECURSIVE findall_href(_, _)
findall_href(page, from) ==
    LET quote_after(i) == first_at(page, <<"\"">>, i + Len(HREF_MARKER))
        starts == {i \in from..Len(page) :
                      /\ occurs_at(page, HREF_MARKER, i)
                      /\ quote_after(i) > 0
                      /\ \A k \in (i + Len(HREF_MARKER))..(quote_after(i) - 1) :
                             page[k] /= "\n"}
    IN  IF starts = {} THEN <<>>
        ELSE LET i == CHOOSE x \in starts : \A y \in starts : x <= y
             IN  <<SubSeq(page, i + Len(HREF_MARKER), quote_after(i) - 1)>>
                 \o findall_href(page, quote_after(i) + 1)

(* re.sub(r"<[^>]+>", " ", text): every character of a tag becomes a       *)
(* space (the run of spaces is collapsed below)                            *)
blank_tags(text) ==
    LET in_tag(k) == \E i \in 1..k :
                         /\ text[i] = "<"
                         /\ first_at(text, <<">">>, i + 1) > i + 1
                         /\ k <= first_at(text, <<">">>, i + 1)
    IN  [k \in 1..Len(text) |-> IF in_tag(k) THEN " " ELSE text[k]]

(* re.sub(r"&[a-z]+;", " ", text) *)
blank_entities(text) ==
    LET in_entity(k) == \E i \in 1..k : \E j \in k..Len(text) :
                            /\ text[i] = "&"
                            /\ text[j] = ";"
                            /\ j > i + 1
                            /\ \A m \in (i + 1)..(j - 1) : text[m] \in LowerSet
    IN  [k \in 1..Len(text) |-> IF in_entity(k) THEN " " ELSE text[k]]

(* re.sub(r"\s+", " ", text) *)
collapse_spaces(text) ==
    LET kept == {k \in 1..Len(text) :
                    text[k] \notin RegexSpace \/ k = 1 \/ text[k - 1] \notin RegexSpace}
    IN  [n \in 1..Cardinality(kept) |->
            LET c == text[nth(kept, n)] IN IF c \in RegexSpace THEN " " ELSE c]

strip_html_tags(page) == strip(collapse_spaces(blank_entities(blank_tags(page))))

(* unquote(s), for the escapes that occur in the links followed here *)
unquote(s) ==
    LET escaped(i) == occurs_at(s, ESCAPED_COLON, i) \/ occurs_at(s, ESCAPED_SLASH, i)
        kept == {i \in 1..Len(s) : ~escaped(i - 1) /\ ~escaped(i - 2)}
    IN  [n \in 1..Cardinality(kept) |->
            LET i == nth(kept, n)
            IN  IF ~escaped(i) THEN s[i]
                ELSE IF occurs_at(s, ESCAPED_COLON, i) THEN ":" ELSE "/"]

(* the first non-blank value of uddg in the query string of url, decoded   *)
(* by parse_qs and again by unquote; url itself when it is no redirect     *)
(* link or carries no uddg                                                 *)
unwrap_ddg_url(url) ==
    IF ~contains(DDG_REDIRECT, url) THEN url
    ELSE LET qs == SubSeq(url, first_at(url, <<"?">>, 1) + 1, Len(url))
             value_end(i) == LET amp == first_at(qs, <<"&">>, i)
                             IN  IF amp = 0 THEN Len(qs) ELSE amp - 1
             keys == {i \in 1..Len(qs) :
                         /\ occurs_at(qs, UDDG, i)
                         /\ (i = 1 \/ qs[i - 1] = "&")
                         /\ value_end(i + Len(UDDG)) >= i + Len(UDDG)}
         IN  IF keys = {} THEN url
             ELSE LET i == CHOOSE x \in keys : \A y \in keys : x <= y
                  IN  unquote(unquote(SubSeq(qs, i + Len(UDDG), value_end(i + Len(UDDG)))))

(* s[:n] *)
cap(s, n) == SubSeq(s, 1, Min(Len(s), n))

titles(page) == findall_element(page, TITLE_MARKER, {CLOSE_A}, 1)

snippets(page) == findall_element(page, SNIPPET_MARKER, {CLOSE_A, CLOSE_SPAN}, 1)

links(page) == findall_href(page, 1)

(* links[:2] *)
top_links(page) == SubSeq(links(page), 1, Min(Len(links(page)), MAX_LINKS))

(* [_strip_html_tags(p) for p in titles + snippets] *)
cleaned_parts(page) ==
    LET parts == titles(page) \o snippets(page)
    IN  [k \in 1..Len(parts) |-> strip_html_tags(parts[k])]

InitSearch ==
    /\ IdleOutside("_duckduckgo_search")
    /\ search_pc = "called"
    /\ search_query \in {QUERIES[i] : i \in 1..Len(QUERIES)}
    /\ html = <<>>
    /\ link_index = 0
    /\ link_urls = <<>>
    /\ fetched_pages = <<>>
    /\ corpus = None

(* html = _fetch_html(url) *)
SearchPage ==
    /\ search_pc = "called"
    /\ html' \in SearchPages
    /\ search_pc' = "links"
    /\ UNCHANGED <<search_query, link_index, link_urls, fetched_pages, corpus>>
    /\ UNCHANGED <<find_founder_vars, fetch_vars, mailer_vars, helper_vars>>

(* _fetch_html(url) raises; the call is outside every try block *)
SearchPageRaises ==
    /\ search_pc = "called"
    /\ search_pc' = "raised"
    /\ corpus' = Raised
    /\ UNCHANGED <<search_query, html, link_index, link_urls, fetched_pages>>
    /\ UNCHANGED <<find_founder_vars, fetch_vars, mailer_vars, helper_vars>>

(* one pass of the loop over links[:2] in which the page is fetched *)
FetchLink ==
    /\ search_pc = "links"
    /\ link_index < Len(top_links(html))
    /\ link_index' = link_index + 1
    /\ link_urls' = Append(link_urls, unwrap_ddg_url(top_links(html)[link_index']))
    /\ \E page_html \in LinkPages :
        fetched_pages' = Append(fetched_pages, cap(strip_html_tags(page_html), PAGE_CAP))
    /\ UNCHANGED <<search_pc, search_query, html, corpus>>
    /\ UNCHANGED <<find_founder_vars, fetch_vars, mailer_vars, helper_vars>>

(* one pass of the loop in which _fetch_html raises: the link is skipped *)
FetchLinkRaises ==
    /\ search_pc = "links"
    /\ link_index < Len(top_links(html))
    /\ link_index' = link_index + 1
    /\ link_urls' = Append(link_urls, unwrap_ddg_url(top_links(html)[link_index']))
    /\ UNCHANGED <<search_pc, search_query, html, fetched_pages, corpus>>
    /\ UNCHANGED <<find_founder_vars, fetch_vars, mailer_vars, helper_vars>>

(* combined = "\n".join(cleaned_parts + fetched_pages); return combined[:14000] *)
Combine ==
    /\ search_pc = "links"
    /\ link_index = Len(top_links(html))
    /\ corpus' = cap(join(LINE_FEED, cleaned_parts(html) \o fetched_pages), CORPUS_CAP)
    /\ search_pc' = "done"
    /\ UNCHANGED <<search_query, html, link_index, link_urls, fetched_pages>>
    /\ UNCHANGED <<find_founder_vars, fetch_vars, mailer_vars, helper_vars>>

NextSearch ==
    \/ SearchPage
    \/ SearchPageRaises
    \/ FetchLink
    \/ FetchLinkRaises
    \/ Combine

SpecSearch == InitSearch /\ [][NextSearch]_vars

UNRAVEL_TECH_FOUNDERS ==
    <<"U", "n", "r", "a", "v", "e", "l", " ", "T", "e", "c", "h", " ",
      "f", "o", "u", "n", "d", "e", "r", "s">>

(* C20: when the search page has no result title and no result snippet,    *)
(* the corpus is the full tag-stripped text of the page, so that a page    *)
(* with text and without the expected markup gives a non-empty corpus.     *)
(* _duckduckgo_search has no such branch: the corpus is empty.             *)
C20_FallbackToStrippedPage ==
    search_pc = "done" /\ html = PageNoMarkers =>
        /\ corpus /= <<>>
        /\ corpus = UNRAVEL_TECH_FOUNDERS

=============================================================================
